---- MODULE Spec2Model ----
(***************************************************************************)
(* Model of BaseStorage (ocm_base_storage.js) as the client module uses it  *)
(* (ClientStorage, ocm_client_module.js): one in-memory record sequence,   *)
(* the validate override, persistence to one localStorage entry and        *)
(* synchronous listener notification.  Every public method is an operator  *)
(* giving the call's outcome and an action applying it; the variable       *)
(* `last` records which call came last and how it ended.                   *)
(* Spec follows whole calls; SpecRoundTrip hands one store's export to the *)
(* import of another; SpecNotify follows _notifyListeners one listener at  *)
(* a time, with a listener that throws and one that calls the store.       *)
(* SpecSession adds a reload over the entry left behind, SpecConstruct     *)
(* constructs a store over any entry, SpecRegistry puts two stores under a *)
(* StorageManager, and SpecApp runs the client and project services over   *)
(* the four stores the two modules construct.                              *)
(***************************************************************************)
EXTENDS Integers, Sequences, FiniteSets, TLC

VARIABLES data, storage, options, listeners, now, calls, lastWrite, last,
          source, exported, stack, log, registry, app

vars == <<data, storage, options, listeners, now, calls, lastWrite, last,
          source, exported, stack, log, registry, app>>

\* the calls in progress, innermost first, each with the deliveries it still
\* has to make, and the calls, deliveries and de-registrations made so far
delivery == <<stack, log>>

\* a second store's in-memory sequence and the snapshot its export() returned
peer == <<source, exported>>

(* ------------------------------ bounds --------------------------------- *)

\* most records the in-memory sequence is allowed to grow to
MaxLen == 3
\* most items in one bulkUpdate / import argument
MaxItems == 2
\* last clock reading (milliseconds since the store was constructed)
MaxClock == 1
\* number of distinct ids _generateId can return
MaxGenIds == 1
\* number of calls made on the store after its construction
MaxCalls == 2
\* number of listeners that may subscribe
MaxListeners == 1

(* ------------------------------ values --------------------------------- *)

\* a key that the object does not have (JS undefined)
Absent == "absent"

Fields == {"id", "createdAt", "updatedAt", "companyName", "contactPerson", "email", "phone"}

SystemFields == {"id", "createdAt", "updatedAt"}

\* JS truthiness of a string-or-undefined value: undefined and '' are falsy
Falsy(v) == v = Absent \/ v = ""

\* new Date().toISOString() at clock reading n: distinct readings give
\* distinct strings
ISOStrings == <<"t0", "t1", "t2", "t3", "t4">>

toISOString(n) == ISOStrings[n + 1]

GenIdStrings == <<"g1", "g2", "g3">>

\* the ids `${Date.now()}_${Math.random()...}` can come out as
GenIds == {GenIdStrings[i] : i \in 1..MaxGenIds}

\* an object with no keys
EmptyObject == [f \in Fields |-> Absent]

\* {...base, ...over}: keys of over win
Spread(base, over) == [f \in DOMAIN base |-> IF over[f] # Absent THEN over[f] ELSE base[f]]

(* --------------------------- bounded inputs ---------------------------- *)

\* ids a caller passes in
CallerIds == {"c1", "c2"}

\* id arguments of update and delete
IdArgs == CallerIds \cup GenIds

\* a client object with an id, a createdAt and an email of the caller's
Client(id, createdAt, email) ==
  [id |-> id, createdAt |-> createdAt, updatedAt |-> Absent, companyName |-> "Acme",
   contactPerson |-> "Kim", email |-> email, phone |-> "010-1234"]

\* objects handed to create: without id, with an empty one, with a fresh or a
\* taken one; with a createdAt of the caller's; complete, or with a required
\* field missing, or with a malformed email or phone
CreateInputs ==
  {Client(id, createdAt, email) :
     id \in {Absent, "", "c1", "c2"}, createdAt \in {Absent, "tc"}, email \in {Absent, "a@x.io"}}
    \cup {[Client("c2", Absent, "a@x.io") EXCEPT !.contactPerson = Absent],
          [Client(Absent, Absent, "a@x.io") EXCEPT !.phone = "abc"]}

\* a partial object naming an id, a createdAt and an email, or none of them
Partial(id, createdAt, email) ==
  [EmptyObject EXCEPT !.id = id, !.createdAt = createdAt, !.email = email]

\* partial objects handed to update
Partials ==
  {Partial(id, createdAt, email) :
     id \in {Absent, "c2"}, createdAt \in {Absent, "tc"}, email \in {Absent, "b@x.io", "b.x.io"}}
    \cup {[EmptyObject EXCEPT !.updatedAt = "tc", !.phone = "010-9999"],
          [EmptyObject EXCEPT !.companyName = ""]}

\* a record as an earlier session or another store wrote it
Stored(id, email) == [Client(id, "tc", email) EXCEPT !.updatedAt = "tc"]

\* records handed to bulkUpdate and found in imported snapshots
ItemSamples ==
  {Stored("c1", "a@x.io"), Stored("c1", "b@x.io"), Stored("c2", Absent)}

SeqsUpTo(S, n) == UNION {[1..k -> S] : k \in 0..n}

ItemLists == SeqsUpTo(ItemSamples, MaxItems)

\* the listeners that may subscribe
ListenerNames == <<"L1", "L2", "L3">>

ListenerIds == {ListenerNames[i] : i \in 1..MaxListeners}

\* What the callbacks do when invoked: L1 returns, L2 throws, and L3, told of
\* a created record, calls the store's delete for it before it returns.
throws(l) == l = "L2"

reenters(l, action) == l = "L3" /\ action = "create"

\* no StorageManager in use: no store registered, no global listener, no
\* importAll or clearAll made; the store the calls are made on is the one
\* ClientStorage constructs under the name 'clients'
NoRegistry ==
  [registered |-> <<>>, globalListeners |-> <<>>,
   parked |-> [data |-> <<>>, storage |-> [kind |-> "absent", data |-> <<>>], listeners |-> <<>>],
   focus |-> "clients",
   job |-> [kind |-> "none", shape |-> "none", status |-> "none", todo |-> <<>>, names |-> {},
            merge |-> FALSE, failing |-> {}, start |-> <<>>]]

\* this.storageKey of the store the call is made on
storageKey == registry.focus

\* the store objects of the page: the module-level clientStorage and
\* projectStorage, which are registered, and the ones ClientManagement and
\* ProjectManagement construct for their own service when they mount
Instances == {"clientStorage", "ClientManagement", "projectStorage", "ProjectManagement"}

\* the name the instance hands to super(): its storageKey
KeyOf(instance) ==
  IF instance \in {"clientStorage", "ClientManagement"} THEN "clients" ELSE "projects"

\* no client or project module loaded: only the one store the calls are made on
NoApp ==
  [focus |-> "clientStorage",
   memory |-> [i \in Instances |-> <<>>],
   entry |-> [k \in {"clients", "projects"} |-> [kind |-> "absent", data |-> <<>>]],
   mounted |-> {}, made |-> 0, alive |-> {}, on |-> "none", id |-> "none", unloaded |-> FALSE]

(* --------------------------- persistence ------------------------------- *)

\* localStorage.getItem(key) === null
NoEntry == [kind |-> "absent", data |-> <<>>]

\* an entry JSON.parse throws on
Unparseable == [kind |-> "unparseable", data |-> <<>>]

\* an entry holding JSON that is neither an array nor a compressed wrapper
NotAnArray == [kind |-> "object", data |-> <<>>]

\* JSON.stringify(data): a JSON array of the records
ArrayEntry(d) == [kind |-> "array", data |-> d]

\* JSON.stringify({_compressed: true, data: JSON.stringify(data)})
CompressedEntry(d) == [kind |-> "compressed", data |-> d]

\* what _save hands to localStorage.setItem
Serialized(d) == IF options.compression THEN CompressedEntry(d) ELSE ArrayEntry(d)

\* the value JSON.parse gives for the text "{}", which is no array; written
\* as a tuple around a marker so that it can be compared with sequences
NotASequence == <<"[object Object]">>

\* JSON.stringify({_compressed: true, data: inner}) for an inner text that
\* _save did not write: text that is no JSON, and the JSON text "{}"
WrappedGarbage == [kind |-> "wrappedGarbage", data |-> <<>>]

WrappedObject == [kind |-> "wrappedObject", data |-> <<>>]

\* parsed.data of such an entry
innerText(entry) == IF entry.kind = "wrappedGarbage" THEN "garbage" ELSE "{}"

\* _decompress(compressedData) for those inner texts: JSON.parse, [] when it throws
_decompress(compressedData) ==
  IF compressedData = "garbage" THEN <<>> ELSE NotASequence

\* _loadData that does not look for the compression wrapper
_loadData_ignoresWrapper(entry, opts) ==
  IF entry.kind = "array" THEN entry.data ELSE <<>>

\* _loadData of an entry under the given options
_loadData(entry, opts) ==
  CASE entry.kind = "absent" -> <<>>
    [] entry.kind = "unparseable" -> <<>>
    [] entry.kind = "compressed" -> IF opts.compression THEN entry.data ELSE <<>>
    [] entry.kind \in {"wrappedGarbage", "wrappedObject"} ->
         IF opts.compression THEN _decompress(innerText(entry)) ELSE <<>>
    [] entry.kind = "array" -> entry.data
    [] OTHER -> <<>>

\* _save with its catch block swallowing the error instead of rethrowing it
_save_swallowsError(d, quota) ==
  IF quota THEN [ok |-> TRUE, storage |-> storage]
  ELSE [ok |-> TRUE, storage |-> Serialized(d)]

\* _save with setItem throwing (quota) or not: <<succeeded, entry afterwards>>
_save(d, quota) ==
  IF quota THEN [ok |-> FALSE, storage |-> storage]
  ELSE [ok |-> TRUE, storage |-> Serialized(d)]

(* ----------------------- validation and lookup ------------------------- *)

\* const required = ['companyName', 'contactPerson', 'email', 'phone']
required == {"companyName", "contactPerson", "email", "phone"}

\* the strings /^[^\s@]+@[^\s@]+\.[^\s@]+$/ matches, among those of the model
\* (String(undefined) is 'undefined', which it does not match)
emailRegex(v) == v \in {"a@x.io", "b@x.io", "A@x.io"}

\* the strings /^[\d-+().\s]+$/ matches, among those of the model
phoneRegex(v) == v \in {"010-1234", "010-9999"}

\* ClientStorage.validate(data) passes: no required field is missing or
\* falsy, the email and the phone are well formed
validate(d) ==
  /\ {field \in required : Falsy(d[field])} = {}
  /\ emailRegex(d.email)
  /\ phoneRegex(d.phone)

\* Object.values(window.OCM_CONSTANTS.PROJECT_STATUS)
validStatuses ==
  {"received", "quoted", "contracted", "in_progress", "completed", "cancelled", "on_hold"}

\* ProjectStorage.validate(data) passes: no required field is missing or
\* falsy and the status, when given, is one of the valid ones (the records of
\* the model carry no startDate and endDate, so the date test is skipped)
ProjectStorage_validate(d) ==
  /\ {field \in {"clientId", "projectTitle", "projectDescription", "projectType"} :
        Falsy(d[field])} = {}
  /\ (Falsy(d.status) \/ d.status \in validStatuses)

\* _validateData passes (inputs here are always objects): this.validate is
\* the override of the store's class
_validateData(d) == IF storageKey = "projects" THEN ProjectStorage_validate(d) ELSE validate(d)

\* findIndex(item => item.id === id), 0 standing for -1
findIndex(d, id) ==
  IF \E i \in 1..Len(d) : d[i].id = id
  THEN CHOOSE i \in 1..Len(d) : d[i].id = id /\ \A j \in 1..(i - 1) : d[j].id # id
  ELSE 0

\* getById(id) finds a record
exists(d, id) == findIndex(d, id) # 0

\* getById(id): the first record with that id, as a sequence of at most one
getById(d, id) == IF exists(d, id) THEN <<d[findIndex(d, id)]>> ELSE <<>>

\* _notifyListeners without the try/catch around each listener: the first
\* error ends the loop
_notifyListeners_stopsAtThrow(action, payload) ==
  LET upTo == IF \E i \in 1..Len(listeners) : throws(listeners[i])
              THEN CHOOSE i \in 1..Len(listeners) :
                     throws(listeners[i]) /\ \A j \in 1..(i - 1) : ~throws(listeners[j])
              ELSE Len(listeners) IN
  [i \in 1..upTo |->
     [listener |-> listeners[i], action |-> action, data |-> payload,
      storageKey |-> storageKey]]

\* _notifyListeners(action, data): listener(action, data, this.storageKey) for
\* each subscribed listener in subscription order, each inside its own
\* try/catch, so that a listener's error is logged and the loop goes on
_notifyListeners(action, payload) ==
  [i \in 1..Len(listeners) |->
     [listener |-> listeners[i], action |-> action, data |-> payload,
      storageKey |-> storageKey]]

\* listeners.add(listener): a Set keeps insertion order and no duplicate
subscribe(ls, l) ==
  IF \E i \in 1..Len(ls) : ls[i] = l THEN ls ELSE Append(ls, l)

\* de-registration taking out the listener subscribed last
unsubscribe_removesNewest(ls, l) ==
  IF ls = <<>> THEN ls ELSE SubSeq(ls, 1, Len(ls) - 1)

\* listeners.delete(listener), what the function subscribe returned does
unsubscribe(ls, l) == SelectSeq(ls, LAMBDA x : x # l)

\* getAll(): a copy of the in-memory sequence
getAll(d) == d

(* ------------------------- outcome of one call ------------------------- *)

\* What a call leaves behind: the in-memory sequence and the entry, whether
\* it returned or raised (error: the error it raised, or caught and logged),
\* the record it returned (value) or the boolean it returned (flag), whether
\* setItem was attempted ("none", "ok", "failed"), and the deliveries made.
Outcome(d, st, ret, err, val, flag, wrote, notes) ==
  [data |-> d, storage |-> st, ret |-> ret, error |-> err, value |-> val,
   flag |-> flag, wrote |-> wrote, notified |-> notes]

\* the call raises before touching anything
Raise(err) == Outcome(data, storage, "raised", err, <<>>, "none", "none", <<>>)

\* newItem taking the caller's id whenever the key is there, '' included
newItem_keepsFalsyId(itemData, gid) ==
  [itemData EXCEPT !.id = IF itemData.id = Absent THEN gid ELSE itemData.id,
                   !.createdAt = toISOString(now),
                   !.updatedAt = toISOString(now)]

\* the object create stores for itemData
newItem(itemData, gid) ==
  [itemData EXCEPT !.id = IF Falsy(itemData.id) THEN gid ELSE itemData.id,
                   !.createdAt = toISOString(now),
                   !.updatedAt = toISOString(now)]

\* create without the duplicate-id check
create_noDuplicateCheck(itemData, gid, quota) ==
  IF options.validation /\ ~_validateData(itemData) THEN Raise("ValidationError")
  ELSE LET item == newItem(itemData, gid)
           d2 == Append(data, item)
           sv == _save(d2, quota) IN
    IF ~sv.ok
    THEN Outcome(d2, sv.storage, "raised", "PersistenceError", <<>>, "none", "failed", <<>>)
    ELSE Outcome(d2, sv.storage, "returned", "none", <<item>>, "none", "ok",
                 _notifyListeners("create", <<item>>))

\* create taking the pushed record back out when _save throws
create_rollsBack(itemData, gid, quota) ==
  IF options.validation /\ ~_validateData(itemData) THEN Raise("ValidationError")
  ELSE LET item == newItem(itemData, gid) IN
    IF getById(data, item.id) # <<>> THEN Raise("DuplicateIdError")
    ELSE LET d2 == Append(data, item)
             sv == _save(d2, quota) IN
      IF ~sv.ok
      THEN Outcome(data, sv.storage, "raised", "PersistenceError", <<>>, "none", "failed", <<>>)
      ELSE Outcome(d2, sv.storage, "returned", "none", <<item>>, "none", "ok",
                   _notifyListeners("create", <<item>>))

\* create(itemData), _generateId returning gid, setItem failing iff quota
create(itemData, gid, quota) ==
  IF options.validation /\ ~_validateData(itemData) THEN Raise("ValidationError")
  ELSE LET item == newItem(itemData, gid) IN
    IF getById(data, item.id) # <<>> THEN Raise("DuplicateIdError")
    ELSE LET d2 == Append(data, item)
             sv == _save(d2, quota) IN
      IF ~sv.ok
      THEN Outcome(d2, sv.storage, "raised", "PersistenceError", <<>>, "none", "failed", <<>>)
      ELSE Outcome(d2, sv.storage, "returned", "none", <<item>>, "none", "ok",
                   _notifyListeners("create", <<item>>))

\* updatedItem without the id pinned after the spread of updates
updatedItem_partialIdWins(old, updates, id) ==
  [Spread(old, updates) EXCEPT !.updatedAt = toISOString(now)]

\* the object update stores in place of old
updatedItem(old, updates, id) ==
  [Spread(old, updates) EXCEPT !.id = id, !.updatedAt = toISOString(now)]

\* update returning null for an unknown id instead of throwing
update_returnsNullWhenMissing(id, updates, quota) ==
  LET index == findIndex(data, id) IN
  IF index = 0
  THEN Outcome(data, storage, "returned", "NotFoundError", <<>>, "none", "none", <<>>)
  ELSE LET item == updatedItem(data[index], updates, id) IN
    IF options.validation /\ ~_validateData(item) THEN Raise("ValidationError")
    ELSE LET d2 == [data EXCEPT ![index] = item]
             sv == _save(d2, quota) IN
      IF ~sv.ok
      THEN Outcome(d2, sv.storage, "raised", "PersistenceError", <<>>, "none", "failed", <<>>)
      ELSE Outcome(d2, sv.storage, "returned", "none", <<item>>, "none", "ok",
                   _notifyListeners("update", <<item>>))

\* update(id, updates)
update(id, updates, quota) ==
  LET index == findIndex(data, id) IN
  IF index = 0 THEN Raise("NotFoundError")
  ELSE LET item == updatedItem(data[index], updates, id) IN
    IF options.validation /\ ~_validateData(item) THEN Raise("ValidationError")
    ELSE LET d2 == [data EXCEPT ![index] = item]
             sv == _save(d2, quota) IN
      IF ~sv.ok
      THEN Outcome(d2, sv.storage, "raised", "PersistenceError", <<>>, "none", "failed", <<>>)
      ELSE Outcome(d2, sv.storage, "returned", "none", <<item>>, "none", "ok",
                   _notifyListeners("update", <<item>>))

\* data.splice(index, 1)
splice(d, index) == [i \in 1..(Len(d) - 1) |-> IF i < index THEN d[i] ELSE d[i + 1]]

\* delete saving and notifying without the index === -1 early return
delete_savesWhenMissing(id, quota) ==
  LET index == findIndex(data, id)
      d2 == IF index = 0 THEN data ELSE splice(data, index)
      sv == _save(d2, quota) IN
  IF ~sv.ok
  THEN Outcome(d2, sv.storage, "returned", "PersistenceError", <<>>, "false", "failed", <<>>)
  ELSE Outcome(d2, sv.storage, "returned", "none", <<>>, IF index = 0 THEN "false" ELSE "true",
               "ok", _notifyListeners("delete", IF index = 0 THEN <<>> ELSE <<data[index]>>))

\* delete(id): every error is caught and turned into the return value false
delete(id, quota) ==
  LET index == findIndex(data, id) IN
  IF index = 0
  THEN Outcome(data, storage, "returned", "none", <<>>, "false", "none", <<>>)
  ELSE LET deletedItem == data[index]
           d2 == splice(data, index)
           sv == _save(d2, quota) IN
    IF ~sv.ok
    THEN Outcome(d2, sv.storage, "returned", "PersistenceError", <<>>, "false", "failed", <<>>)
    ELSE Outcome(d2, sv.storage, "returned", "none", <<>>, "true", "ok",
                 _notifyListeners("delete", <<deletedItem>>))

\* the array items.map builds in bulkUpdate once every item passed validation
validatedItems(items) ==
  [i \in 1..Len(items) |-> [items[i] EXCEPT !.updatedAt = toISOString(now)]]

\* bulkUpdate pushing the items after the records already held
bulkUpdate_appends(items, quota) ==
  IF options.validation /\ \E i \in 1..Len(items) : ~_validateData(items[i])
  THEN Outcome(data, storage, "returned", "ValidationError", <<>>, "false", "none", <<>>)
  ELSE LET d2 == data \o validatedItems(items)
           sv == _save(d2, quota) IN
    IF ~sv.ok
    THEN Outcome(d2, sv.storage, "returned", "PersistenceError", <<>>, "false", "failed", <<>>)
    ELSE Outcome(d2, sv.storage, "returned", "none", <<>>, "true", "ok",
                 _notifyListeners("bulkUpdate", d2))

\* bulkUpdate storing each item as soon as it passed validation
bulkUpdate_keepsValidPrefix(items, quota) ==
  IF options.validation /\ \E i \in 1..Len(items) : ~_validateData(items[i])
  THEN LET bad == CHOOSE i \in 1..Len(items) :
                    ~_validateData(items[i]) /\ \A j \in 1..(i - 1) : _validateData(items[j]) IN
       Outcome(validatedItems(SubSeq(items, 1, bad - 1)), storage, "returned",
               "ValidationError", <<>>, "false", "none", <<>>)
  ELSE LET d2 == validatedItems(items)
           sv == _save(d2, quota) IN
    IF ~sv.ok
    THEN Outcome(d2, sv.storage, "returned", "PersistenceError", <<>>, "false", "failed", <<>>)
    ELSE Outcome(d2, sv.storage, "returned", "none", <<>>, "true", "ok",
                 _notifyListeners("bulkUpdate", d2))

\* bulkUpdate(items): every error is caught and turned into the return value false
bulkUpdate(items, quota) ==
  IF options.validation /\ \E i \in 1..Len(items) : ~_validateData(items[i])
  THEN Outcome(data, storage, "returned", "ValidationError", <<>>, "false", "none", <<>>)
  ELSE LET d2 == validatedItems(items)
           sv == _save(d2, quota) IN
    IF ~sv.ok
    THEN Outcome(d2, sv.storage, "returned", "PersistenceError", <<>>, "false", "failed", <<>>)
    ELSE Outcome(d2, sv.storage, "returned", "none", <<>>, "true", "ok",
                 _notifyListeners("bulkUpdate", d2))

\* clear emptying and saving without telling the listeners
clear_doesNotNotify(quota) ==
  LET sv == _save(<<>>, quota) IN
  IF ~sv.ok
  THEN Outcome(<<>>, sv.storage, "raised", "PersistenceError", <<>>, "none", "failed", <<>>)
  ELSE Outcome(<<>>, sv.storage, "returned", "none", <<>>, "none", "ok", <<>>)

\* clear()
clear(quota) ==
  LET sv == _save(<<>>, quota) IN
  IF ~sv.ok
  THEN Outcome(<<>>, sv.storage, "raised", "PersistenceError", <<>>, "none", "failed", <<>>)
  ELSE Outcome(<<>>, sv.storage, "returned", "none", <<>>, "none", "ok",
               _notifyListeners("clear", <<>>))

\* the snapshots handed to import: null, an object whose data is no array,
\* an object whose data is a list of records
Snapshots ==
  {[shape |-> "null", data |-> <<>>], [shape |-> "noArray", data |-> <<>>]}
    \cup {[shape |-> "ok", data |-> l] : l \in ItemLists}

\* exportedData.data.filter(item => !existingIds.has(item.id))
newItems(d, incoming) ==
  SelectSeq(incoming, LAMBDA item : \A i \in 1..Len(d) : d[i].id # item.id)

\* import whose merge lets a snapshot record replace the held record of its id
import_mergeOverwrites(exportedData, merge, quota) ==
  IF exportedData.shape # "ok" THEN Raise("ImportFormatError")
  ELSE LET incoming == exportedData.data
           replaced == [i \in 1..Len(data) |->
                          IF \E j \in 1..Len(incoming) : incoming[j].id = data[i].id
                          THEN incoming[CHOOSE j \in 1..Len(incoming) : incoming[j].id = data[i].id]
                          ELSE data[i]]
           d2 == IF merge THEN replaced \o newItems(data, incoming) ELSE incoming
           sv == _save(d2, quota) IN
    IF ~sv.ok
    THEN Outcome(d2, sv.storage, "raised", "PersistenceError", <<>>, "none", "failed", <<>>)
    ELSE Outcome(d2, sv.storage, "returned", "none", <<>>, "none", "ok",
                 _notifyListeners("import", d2))

\* import reading a missing record list as an empty one
import_missingListIsEmpty(exportedData, merge, quota) ==
  LET incoming == IF exportedData.shape # "ok" THEN <<>> ELSE exportedData.data
      d2 == IF merge THEN data \o newItems(data, incoming) ELSE incoming
      sv == _save(d2, quota) IN
  IF ~sv.ok
  THEN Outcome(d2, sv.storage, "raised", "PersistenceError", <<>>, "none", "failed", <<>>)
  ELSE Outcome(d2, sv.storage, "returned", "none", <<>>, "none", "ok",
               _notifyListeners("import", d2))

\* import in whose replace branch only the first record of each id is taken
import_keepsFirstOfEachId(exportedData, merge, quota) ==
  IF exportedData.shape # "ok" THEN Raise("ImportFormatError")
  ELSE LET incoming == exportedData.data
           firsts == SelectSeq([j \in 1..Len(incoming) |-> [at |-> j, item |-> incoming[j]]],
                               LAMBDA e : \A k \in 1..(e.at - 1) : incoming[k].id # e.item.id)
           d2 == IF merge THEN data \o newItems(data, incoming)
                 ELSE [j \in 1..Len(firsts) |-> firsts[j].item]
           sv == _save(d2, quota) IN
    IF ~sv.ok
    THEN Outcome(d2, sv.storage, "raised", "PersistenceError", <<>>, "none", "failed", <<>>)
    ELSE Outcome(d2, sv.storage, "returned", "none", <<>>, "none", "ok",
                 _notifyListeners("import", d2))

\* import(exportedData, merge)
import(exportedData, merge, quota) ==
  IF exportedData.shape # "ok" THEN Raise("ImportFormatError")
  ELSE LET d2 == IF merge THEN data \o newItems(data, exportedData.data)
                 ELSE exportedData.data
           sv == _save(d2, quota) IN
    IF ~sv.ok
    THEN Outcome(d2, sv.storage, "raised", "PersistenceError", <<>>, "none", "failed", <<>>)
    ELSE Outcome(d2, sv.storage, "returned", "none", <<>>, "none", "ok",
                 _notifyListeners("import", d2))

\* no snapshot taken yet
NoSnapshot == [shape |-> "none", data |-> <<>>]

\* export() of a store whose in-memory sequence is d
export(d) ==
  [shape |-> "ok", storageKey |-> storageKey, version |-> "2.0.0",
   exportedAt |-> toISOString(now), data |-> d]

(* ------------------------------ actions -------------------------------- *)

\* option sets a store is constructed with (autoSave keeps its default)
OptionSets ==
  {o \in [validation : BOOLEAN, compression : BOOLEAN, autoSave : {TRUE}] :
     o.validation \/ ~o.compression}

\* what the entry may hold when the store is constructed
InitialEntries ==
  {NoEntry, Unparseable, NotAnArray}
    \cup {ArrayEntry(<<Stored("c1", "a@x.io")>>)}

\* The state after a call of method op with outcome out.  last keeps what the
\* call was (op; for import also the merge argument and the number of records
\* in the snapshot), the clock it read (time), the in-memory sequence it found
\* (before), and how it ended: returned or raised, the error raised or caught,
\* the boolean returned, and whether it wrote the entry.
ApplyCall(op, merge, given, out) ==
  /\ calls < MaxCalls
  /\ Len(out.data) <= MaxLen
  /\ calls' = calls + 1
  /\ data' = out.data
  /\ storage' = out.storage
  /\ lastWrite' = IF out.wrote = "none" THEN lastWrite ELSE out.wrote
  /\ last' = [op |-> op, merge |-> merge, given |-> given, time |-> now, before |-> data,
              ret |-> out.ret, error |-> out.error, flag |-> out.flag, wrote |-> out.wrote]
  /\ UNCHANGED <<options, listeners, now, peer, delivery, registry, app>>

Apply(op, out) == ApplyCall(op, "none", 0, out)

\* new BaseStorage(storageKey, options)
Init ==
  /\ options \in OptionSets
  /\ storage \in InitialEntries
  /\ data = _loadData(storage, options)
  /\ listeners = <<>>
  /\ now = 0
  /\ calls = 0
  /\ lastWrite = "none"
  /\ last = [op |-> "constructor", merge |-> "none", given |-> 0, time |-> 0, before |-> <<>>,
             ret |-> "returned", error |-> "none", flag |-> "none", wrote |-> "none"]
  /\ source = <<>>
  /\ exported = NoSnapshot
  /\ stack = <<>>
  /\ log = <<>>
  /\ registry = NoRegistry
  /\ app = NoApp

Create ==
  \E itemData \in CreateInputs, gid \in GenIds, quota \in BOOLEAN :
    Apply("create", create(itemData, gid, quota))

Update ==
  \E id \in IdArgs, updates \in Partials, quota \in BOOLEAN :
    Apply("update", update(id, updates, quota))

Delete ==
  \E id \in IdArgs, quota \in BOOLEAN :
    Apply("delete", delete(id, quota))

BulkUpdate ==
  \E items \in ItemLists, quota \in BOOLEAN :
    Apply("bulkUpdate", bulkUpdate(items, quota))

Clear ==
  \E quota \in BOOLEAN : Apply("clear", clear(quota))

Import ==
  \E exportedData \in Snapshots, merge \in BOOLEAN, quota \in BOOLEAN :
    ApplyCall("import", IF merge THEN "true" ELSE "false", Len(exportedData.data),
              import(exportedData, merge, quota))

\* the beforeunload handler _setupAutoSave installs: _save(), its error uncaught
BeforeUnload ==
  /\ options.autoSave
  /\ \E quota \in BOOLEAN :
       LET sv == _save(data, quota) IN
       Apply("beforeunload", Outcome(data, sv.storage, IF sv.ok THEN "returned" ELSE "raised",
                     IF sv.ok THEN "none" ELSE "PersistenceError", <<>>, "none",
                     IF sv.ok THEN "ok" ELSE "failed", <<>>))

\* subscribe(listener): Set.add keeps first-insertion order and no duplicates
Subscribe ==
  /\ \E l \in ListenerIds :
       listeners' = subscribe(listeners, l)
  /\ UNCHANGED <<data, storage, options, now, calls, lastWrite, last, peer, delivery, registry, app>>

\* the function subscribe returned: listeners.delete(listener)
Unsubscribe ==
  /\ \E l \in ListenerIds : listeners' = unsubscribe(listeners, l)
  /\ UNCHANGED <<data, storage, options, now, calls, lastWrite, last, peer, delivery, registry, app>>

\* the wall clock moves on between calls
Tick ==
  /\ now < MaxClock
  /\ now' = now + 1
  /\ UNCHANGED <<data, storage, options, listeners, calls, lastWrite, last, peer, delivery, registry, app>>

Next ==
  \/ Create
  \/ Update
  \/ Delete
  \/ BulkUpdate
  \/ Clear
  \/ Import
  \/ BeforeUnload
  \/ Subscribe
  \/ Unsubscribe
  \/ Tick

Spec == Init /\ [][Next]_vars

(* ------------------------------ claims --------------------------------- *)

MutatingOps == {"create", "update", "delete", "bulkUpdate", "clear", "import"}

\* the call left the in-memory sequence and the entry alone, wrote nothing
\* and notified nobody
Untouched(out) ==
  /\ out.data = data
  /\ out.storage = storage
  /\ out.wrote = "none"
  /\ out.notified = <<>>

\* C1: after any sequence of create, update, delete, bulkUpdate, clear and
\* import calls, no two records of the in-memory sequence have the same id.
C1_NoTwoRecordsShareAnId ==
  \A i, j \in 1..Len(data) : i # j => data[i].id # data[j].id

\* C2 as stated: between calls the in-memory sequence equals the sequence the
\* persistence entry holds, also after a call whose write failed.
C2_MemoryAlwaysEqualsPersisted ==
  data = _loadData(storage, options)

\* C2 amended: between calls, unless the most recent write attempt failed, the
\* in-memory sequence equals the sequence the persistence entry holds.
C2_MemoryEqualsPersistedUnlessWriteFailed ==
  lastWrite # "failed" => data = _loadData(storage, options)

\* C2 witness: a call changed the in-memory sequence and its write succeeded
C2_Witness ==
  /\ last.op \in MutatingOps
  /\ last.wrote = "ok"
  /\ lastWrite = "ok"
  /\ data # last.before
  /\ data # <<>>

\* C3: with validation enabled, when the rule rejects the input of create, the
\* merged record of update or any item of bulkUpdate (a later one included),
\* the in-memory sequence is unchanged, nothing is written, nobody is notified.
C3_RejectedInputLeavesStoreUntouched ==
  options.validation =>
    /\ \A itemData \in CreateInputs, gid \in GenIds, quota \in BOOLEAN :
         ~validate(itemData) => Untouched(create(itemData, gid, quota))
    /\ \A id \in IdArgs, updates \in Partials, quota \in BOOLEAN :
         (/\ exists(data, id)
          /\ ~validate(updatedItem(data[findIndex(data, id)], updates, id)))
           => Untouched(update(id, updates, quota))
    /\ \A items \in ItemLists, quota \in BOOLEAN :
         (\E i \in 1..Len(items) : ~validate(items[i]))
           => Untouched(bulkUpdate(items, quota))

\* C3 witness: a bulkUpdate was rejected by validation on a store that holds
\* records and has a listener
C3_Witness ==
  /\ options.validation
  /\ last.op = "bulkUpdate"
  /\ last.error = "ValidationError"
  /\ data # <<>>
  /\ listeners # <<>>

EarlyErrors == {"ValidationError", "NotFoundError", "DuplicateIdError", "ImportFormatError"}

\* C4 as stated: every call that fails with a validation, not-found,
\* duplicate-id or import-format error raises the error to its caller.
C4_EveryEarlyFailureIsRaised ==
  (last.op \in MutatingOps /\ last.error \in EarlyErrors) => last.ret = "raised"

\* C4 amended: create, update and import raise their validation, not-found,
\* duplicate-id and import-format errors to the caller; bulkUpdate reports a
\* validation failure by returning false.
C4_EarlyFailureRaisedExceptBulkUpdate ==
  /\ \A itemData \in CreateInputs, gid \in GenIds, quota \in BOOLEAN :
       LET out == create(itemData, gid, quota) IN
       /\ (options.validation /\ ~validate(itemData))
            => (out.ret = "raised" /\ out.error = "ValidationError")
       /\ (/\ options.validation => validate(itemData)
           /\ exists(data, newItem(itemData, gid).id))
            => (out.ret = "raised" /\ out.error = "DuplicateIdError")
  /\ \A id \in IdArgs, updates \in Partials, quota \in BOOLEAN :
       LET out == update(id, updates, quota) IN
       /\ ~exists(data, id) => (out.ret = "raised" /\ out.error = "NotFoundError")
       /\ (/\ options.validation
           /\ exists(data, id)
           /\ ~validate(updatedItem(data[findIndex(data, id)], updates, id)))
            => (out.ret = "raised" /\ out.error = "ValidationError")
  /\ \A exportedData \in Snapshots, merge \in BOOLEAN, quota \in BOOLEAN :
       exportedData.shape # "ok" =>
         LET out == import(exportedData, merge, quota) IN
         out.ret = "raised" /\ out.error = "ImportFormatError"
  /\ \A items \in ItemLists, quota \in BOOLEAN :
       (options.validation /\ \E i \in 1..Len(items) : ~validate(items[i])) =>
         LET out == bulkUpdate(items, quota) IN
         out.ret = "returned" /\ out.flag = "false" /\ out.error = "ValidationError"

\* C4 witness: update of an id no record has, on a store holding records
C4_Witness ==
  /\ last.op = "update"
  /\ last.error = "NotFoundError"
  /\ last.ret = "raised"
  /\ data # <<>>

FailedWrite(ok, ret, flag) ==
  Outcome(ok.data, storage, ret, "PersistenceError", <<>>, flag, "failed", <<>>)

CallerFields == Fields \ SystemFields

\* C6: create with a caller-supplied id that a stored record already has fails
\* with a duplicate-id error, with the sequence and its length unchanged,
\* nothing written and nobody notified; a caller-supplied id no stored record
\* has becomes the id of the stored record.  (An id that is missing or '' is
\* not supplied; the input is one that validation lets through.)
C6_DuplicateIdRejectedFreshIdUsed ==
  \A itemData \in CreateInputs, gid \in GenIds, quota \in BOOLEAN :
    (/\ ~Falsy(itemData.id)
     /\ options.validation => validate(itemData)) =>
      LET out == create(itemData, gid, quota) IN
      IF \E i \in 1..Len(data) : data[i].id = itemData.id
      THEN /\ out.ret = "raised"
           /\ out.error = "DuplicateIdError"
           /\ Len(out.data) = Len(data)
           /\ Untouched(out)
      ELSE /\ Len(out.data) = Len(data) + 1
           /\ out.data[Len(out.data)].id = itemData.id
           /\ out.wrote = "ok" => out.value = <<out.data[Len(out.data)]>>

\* C6 witness: a create was refused as a duplicate on a store with a listener
C6_Witness ==
  /\ last.op = "create"
  /\ last.error = "DuplicateIdError"
  /\ last.ret = "raised"
  /\ data = last.before
  /\ data # <<>>
  /\ listeners # <<>>

\* C7: a successful create(r) appends exactly one record at the end (count
\* plus one, earlier records and their order unchanged); the returned record
\* has a non-empty id, createdAt and updatedAt set and every caller field of r
\* unchanged, and getById of its id yields the returned record.
C7_CreateAppendsOneRecord ==
  \A itemData \in CreateInputs, gid \in GenIds :
    LET out == create(itemData, gid, FALSE) IN
    out.ret = "returned" =>
      /\ Len(out.value) = 1
      /\ LET r == out.value[1] IN
         /\ out.data = Append(data, r)
         /\ Len(out.data) = Len(data) + 1
         /\ SubSeq(out.data, 1, Len(data)) = data
         /\ ~Falsy(r.id)
         /\ r.createdAt = toISOString(now)
         /\ r.updatedAt = toISOString(now)
         /\ \A f \in CallerFields : r[f] = itemData[f]
         /\ ~Falsy(itemData.id) => r.id = itemData.id
         /\ getById(out.data, r.id) = <<r>>

\* C7 witness: a create returned on a store that already held two records
C7_Witness ==
  /\ last.op = "create"
  /\ last.ret = "returned"
  /\ Len(last.before) = 2
  /\ Len(data) = 3
  /\ last.before[1] # last.before[2]

\* what C8 says of every update that goes through, but for updatedAt
UpdateKeepsShape(id, updates, out) ==
  LET index == findIndex(data, id)
      old == data[index]
      new == out.data[index] IN
  /\ new.id = id
  /\ \A f \in CallerFields : new[f] = IF updates[f] # Absent THEN updates[f] ELSE old[f]
  /\ Len(out.data) = Len(data)
  /\ \A i \in 1..Len(data) : i # index => out.data[i] = data[i]
  /\ out.value = <<new>>
  /\ updates = EmptyObject => \A f \in Fields \ {"updatedAt"} : new[f] = old[f]

\* C8 as stated: update(id, partial) of a stored id keeps the id whatever the
\* partial says, gives each caller field named in partial the partial's value
\* and keeps the others, keeps position and count, and with an empty partial
\* changes updatedAt and no other field.
C8_EmptyUpdateChangesUpdatedAt ==
  \A id \in IdArgs, updates \in Partials :
    LET out == update(id, updates, FALSE) IN
    (exists(data, id) /\ out.ret = "returned") =>
      /\ UpdateKeepsShape(id, updates, out)
      /\ updates = EmptyObject =>
           out.data[findIndex(data, id)].updatedAt # data[findIndex(data, id)].updatedAt

\* C8 amended: as C8, but updatedAt is set to the current time, which is the
\* value it already had when the clock has not moved since it was stamped.
C8_UpdateRestampsUpdatedAt ==
  \A id \in IdArgs, updates \in Partials :
    LET out == update(id, updates, FALSE) IN
    (exists(data, id) /\ out.ret = "returned") =>
      /\ UpdateKeepsShape(id, updates, out)
      /\ out.data[findIndex(data, id)].updatedAt = toISOString(now)

\* C8 witness: an update returned, later than the record's last stamp, and
\* the record it changed is not the only one
C8_Witness ==
  /\ last.op = "update"
  /\ last.ret = "returned"
  /\ Len(data) >= 2
  /\ \E i \in 1..Len(data) :
       /\ data[i] # last.before[i]
       /\ data[i].updatedAt = toISOString(last.time)
       /\ last.before[i].updatedAt # toISOString(last.time)

\* C9: the createdAt of a stored record is the value the store stamped at
\* creation: create ignores the caller's createdAt and no update changes it.
C9_CreatedAtOnlySetByStore ==
  /\ (last.op = "create" /\ last.ret = "returned")
       => data[Len(data)].createdAt = toISOString(last.time)
  /\ (last.op = "update" /\ last.ret = "returned")
       => \A i \in 1..Len(data) : data[i].createdAt = last.before[i].createdAt

\* C10: delete(id) of an id no record has returns false, raises nothing,
\* leaves the in-memory sequence and the entry unchanged, notifies nobody.
C10_DeleteOfMissingIdIsNoOp ==
  \A id \in IdArgs, quota \in BOOLEAN :
    (\A i \in 1..Len(data) : data[i].id # id) =>
      LET out == delete(id, quota) IN
      /\ out.ret = "returned"
      /\ out.flag = "false"
      /\ out.error = "none"
      /\ Untouched(out)

\* C10 witness: delete returned false without writing, on a store that holds
\* records and has a listener
C10_Witness ==
  /\ last.op = "delete"
  /\ last.flag = "false"
  /\ last.wrote = "none"
  /\ data = last.before
  /\ data # <<>>
  /\ listeners # <<>>

\* C11: delete(id) returns true exactly when the call removed a record from
\* the in-memory sequence and false exactly when the sequence is as it was
\* before the call, a failing persistence write included.
C11_DeleteReturnsWhetherItRemoved ==
  last.op = "delete" =>
    /\ (last.flag = "true") <=> (Len(data) = Len(last.before) - 1)
    /\ (last.flag = "false") <=> (data = last.before)

\* C12: a bulkUpdate(records) that succeeds replaces the whole in-memory
\* sequence: getAll() then returns the given records in the given order, each
\* with updatedAt re-stamped to the time of the call and otherwise as given,
\* and holds no record from before the call that is not one of these.
C12_BulkUpdateReplacesWholeSequence ==
  \A items \in ItemLists :
    LET out == bulkUpdate(items, FALSE)
        all == getAll(out.data) IN
    out.flag = "true" =>
      /\ Len(all) = Len(items)
      /\ \A i \in 1..Len(items) :
           /\ all[i].updatedAt = toISOString(now)
           /\ \A f \in Fields \ {"updatedAt"} : all[i][f] = items[i][f]
      /\ \A k \in 1..Len(data) :
           (\E i \in 1..Len(all) : all[i] = data[k])
             => \E j \in 1..Len(items) : data[k] = [items[j] EXCEPT !.updatedAt = toISOString(now)]

\* a successful bulkUpdate of two records on a store that held two records,
\* none of which is left
C12_Witness ==
  /\ last.op = "bulkUpdate"
  /\ last.flag = "true"
  /\ Len(last.before) = 2
  /\ Len(data) = 2
  /\ \A k \in 1..2 : \A i \in 1..2 : data[i] # last.before[k]
  /\ \A i \in 1..2 : data[i].updatedAt = toISOString(last.time)

\* the positions of the snapshot records whose id no record of d has
FreshPositions(d, incoming) ==
  {j \in 1..Len(incoming) : \A i \in 1..Len(d) : d[i].id # incoming[j].id}

\* C13: import(snapshot, merge = true) leaves every record held before the
\* call unchanged in content and position and appends, in snapshot order,
\* exactly those snapshot records whose id no record held before the call
\* has; a snapshot record with a held id is dropped.
C13_MergeImportAppendsOnlyFreshIds ==
  \A exportedData \in Snapshots, quota \in BOOLEAN :
    exportedData.shape = "ok" =>
      LET out == import(exportedData, TRUE, quota)
          incoming == exportedData.data
          fresh == FreshPositions(data, incoming)
          appended == Len(out.data) - Len(data) IN
      /\ appended = Cardinality(fresh)
      /\ \A i \in 1..Len(data) : out.data[i] = data[i]
      /\ \A k \in 1..appended :
           out.data[Len(data) + k] =
             incoming[CHOOSE j \in fresh : Cardinality({x \in fresh : x <= j}) = k]

\* a merging import of a two-record snapshot into a store holding one record:
\* one snapshot record appended, the other dropped, the held record kept
C13_Witness ==
  /\ last.op = "import"
  /\ last.merge = "true"
  /\ last.given = 2
  /\ last.ret = "returned"
  /\ Len(last.before) = 1
  /\ Len(data) = 2
  /\ data[1] = last.before[1]
  /\ data[2].id # data[1].id

\* C14: import of an absent snapshot, or of one whose record list is not a
\* sequence, raises the import-format error, leaves the in-memory sequence and
\* the persisted entry as they were and notifies no listener, whatever the
\* merge argument.
C14_MalformedSnapshotIsRejectedUntouched ==
  \A exportedData \in Snapshots, merge \in BOOLEAN, quota \in BOOLEAN :
    exportedData.shape # "ok" =>
      LET out == import(exportedData, merge, quota) IN
      /\ out.ret = "raised"
      /\ out.error = "ImportFormatError"
      /\ out.data = data
      /\ out.storage = storage
      /\ out.wrote = "none"
      /\ out.notified = <<>>

\* a merging import that raised the import-format error on a store holding
\* records, with a listener subscribed
C14_Witness ==
  /\ last.op = "import"
  /\ last.merge = "true"
  /\ last.error = "ImportFormatError"
  /\ last.ret = "raised"
  /\ last.before # <<>>
  /\ data = last.before
  /\ listeners # <<>>

\* the same for a replacing import
C14_WitnessReplace ==
  /\ last.op = "import"
  /\ last.merge = "false"
  /\ last.error = "ImportFormatError"
  /\ data = last.before
  /\ data # <<>>

(* ------------------- export from one store, import into another -------- *)

\* the in-memory sequences the exporting store may hold
SourceStates == SeqsUpTo(ItemSamples, MaxLen)

\* a source store holding some sequence and a target store just constructed
\* over an absent entry, hence empty
InitRoundTrip ==
  /\ source \in SourceStates
  /\ exported = NoSnapshot
  /\ stack = <<>>
  /\ log = <<>>
  /\ registry = NoRegistry
  /\ app = NoApp
  /\ options \in OptionSets
  /\ storage = NoEntry
  /\ data = _loadData(storage, options)
  /\ listeners = <<>>
  /\ now = 0
  /\ calls = 0
  /\ lastWrite = "none"
  /\ last = [op |-> "constructor", merge |-> "none", given |-> 0, time |-> 0, before |-> <<>>,
             ret |-> "returned", error |-> "none", flag |-> "none", wrote |-> "none"]

\* the caller takes source.export()
ExportSource ==
  /\ exported = NoSnapshot
  /\ exported' = export(source)
  /\ UNCHANGED <<data, storage, options, listeners, now, calls, lastWrite, last, source, delivery, registry, app>>

\* the caller hands the snapshot to the target's import
ImportExported ==
  /\ exported # NoSnapshot
  /\ \E merge \in BOOLEAN, quota \in BOOLEAN :
       ApplyCall("import", IF merge THEN "true" ELSE "false", Len(exported.data),
                 import(exported, merge, quota))

NextRoundTrip ==
  \/ ExportSource
  \/ ImportExported
  \/ Subscribe
  \/ Unsubscribe
  \/ Tick

SpecRoundTrip == InitRoundTrip /\ [][NextRoundTrip]_vars

\* C15: importing S.export() with merge = false into an empty target store
\* makes the target's in-memory sequence equal to S's, order and content.
C15_ExportImportRoundTrip ==
  /\ (exported # NoSnapshot /\ data = <<>>) =>
       \A quota \in BOOLEAN : getAll(import(exported, FALSE, quota).data) = source
  /\ (last.op = "import" /\ last.merge = "false" /\ last.before = <<>>) =>
       getAll(data) = source

\* a replacing import of the snapshot of a three-record source, two of the
\* records sharing an id, into the empty target
C15_Witness ==
  /\ last.op = "import"
  /\ last.merge = "false"
  /\ last.ret = "returned"
  /\ last.before = <<>>
  /\ Len(source) = 3
  /\ \E i, j \in 1..3 : i # j /\ source[i].id = source[j].id
  /\ \E i, j \in 1..3 : source[i].id # source[j].id
  /\ data = source

(* --------------- notification, one listener call at a time ------------- *)

\* number of de-registrations made
MaxUnsubs == 2

\* the three callbacks
Callbacks == {ListenerNames[i] : i \in 1..Len(ListenerNames)}

\* the orders in which the three may have subscribed
SubscriptionOrders ==
  {ls \in [1..Len(ListenerNames) -> Callbacks] : \A i, j \in DOMAIN ls : i # j => ls[i] # ls[j]}

\* arguments of the calls made while deliveries are followed
NotifyCreates ==
  {Client("c1", Absent, "a@x.io"), Client("c2", Absent, "a@x.io"), Client(Absent, Absent, Absent)}

NotifyPartials == {Partial(Absent, Absent, "b@x.io"), Partial(Absent, Absent, "b.x.io")}

NotifyLists == SeqsUpTo(ItemSamples, 1)

NotifySnapshots == {x \in Snapshots : Len(x.data) <= 1}

\* One entry of log: a call entered ("call"), a listener invoked ("notify"), a
\* call left ("return"), a de-registration made ("unsubscribe").  call is the
\* number of the call, op its method (for a delivery, the action kind handed
\* to the listener), data the records handed to the listener (for a call, the
\* records it affected), synced whether the entry held the in-memory sequence
\* at that moment, wrote and ret how the call's write and the call ended.
Event(kind, call, op, listener, payload, key, threw, wrote, ret) ==
  [kind |-> kind, call |-> call, op |-> op, listener |-> listener, data |-> payload,
   storageKey |-> key, threw |-> threw, synced |-> (_loadData(storage, options) = data),
   wrote |-> wrote, ret |-> ret]

\* the records a call affected: the record created, updated or deleted, or
\* the whole new sequence
Affected(op, before, out) ==
  CASE op \in {"create", "update"} -> out.value
    [] op = "delete" ->
         IF Len(out.data) = Len(before) THEN <<>>
         ELSE <<before[CHOOSE i \in 1..Len(before) : splice(before, i) = out.data]>>
    [] OTHER -> out.data

\* A call of method op is entered, from outside (outer empty) or from inside
\* a listener (outer: the calls still in progress): it runs up to its
\* _notifyListeners, leaving the deliveries it has to make.
Enter(op, out, outer, sofar) ==
  /\ calls < MaxCalls
  /\ Len(out.data) <= MaxLen
  /\ calls' = calls + 1
  /\ data' = out.data
  /\ storage' = out.storage
  /\ lastWrite' = IF out.wrote = "none" THEN lastWrite ELSE out.wrote
  /\ stack' = <<[call |-> calls + 1, op |-> op, before |-> data, ret |-> out.ret,
                 error |-> out.error, flag |-> out.flag, wrote |-> out.wrote,
                 pending |-> out.notified]>> \o outer
  /\ log' = Append(sofar, Event("call", calls + 1, op, "none", Affected(op, data, out), "none",
                                FALSE, out.wrote, out.ret))
  /\ UNCHANGED <<options, listeners, now, last, peer, registry, app>>

\* three listeners subscribed in some order to a store just constructed
InitNotify ==
  /\ options \in OptionSets
  /\ storage \in {NoEntry, ArrayEntry(<<Stored("c1", "a@x.io")>>)}
  /\ data = _loadData(storage, options)
  /\ listeners \in SubscriptionOrders
  /\ now = 0
  /\ calls = 0
  /\ lastWrite = "none"
  /\ last = [op |-> "constructor", merge |-> "none", given |-> 0, time |-> 0, before |-> <<>>,
             ret |-> "returned", error |-> "none", flag |-> "none", wrote |-> "none"]
  /\ source = <<>>
  /\ exported = NoSnapshot
  /\ stack = <<>>
  /\ log = <<>>
  /\ registry = NoRegistry
  /\ app = NoApp

CallCreate ==
  /\ stack = <<>>
  /\ \E itemData \in NotifyCreates, gid \in GenIds, quota \in BOOLEAN :
       Enter("create", create(itemData, gid, quota), <<>>, log)

CallUpdate ==
  /\ stack = <<>>
  /\ \E id \in CallerIds, updates \in NotifyPartials, quota \in BOOLEAN :
       Enter("update", update(id, updates, quota), <<>>, log)

CallDelete ==
  /\ stack = <<>>
  /\ \E id \in CallerIds, quota \in BOOLEAN :
       Enter("delete", delete(id, quota), <<>>, log)

CallBulkUpdate ==
  /\ stack = <<>>
  /\ \E items \in NotifyLists, quota \in BOOLEAN :
       Enter("bulkUpdate", bulkUpdate(items, quota), <<>>, log)

CallClear ==
  /\ stack = <<>>
  /\ \E quota \in BOOLEAN : Enter("clear", clear(quota), <<>>, log)

CallImport ==
  /\ stack = <<>>
  /\ \E exportedData \in NotifySnapshots, merge \in BOOLEAN, quota \in BOOLEAN :
       Enter("import", import(exportedData, merge, quota), <<>>, log)

\* the delivery the innermost call makes next, and the calls in progress once
\* it is made
NextDelivery == Head(Head(stack).pending)

AfterDelivery == <<[Head(stack) EXCEPT !.pending = Tail(@)]>> \o Tail(stack)

Notified ==
  Append(log, Event("notify", Head(stack).call, NextDelivery.action, NextDelivery.listener,
                    NextDelivery.data, NextDelivery.storageKey, throws(NextDelivery.listener),
                    Head(stack).wrote, Head(stack).ret))

\* forEach invokes the next listener, which returns or throws; the error is
\* caught and the loop goes on
Invoke ==
  /\ stack # <<>>
  /\ Head(stack).pending # <<>>
  /\ ~(reenters(NextDelivery.listener, NextDelivery.action) /\ calls < MaxCalls)
  /\ stack' = AfterDelivery
  /\ log' = Notified
  /\ UNCHANGED <<data, storage, options, listeners, now, calls, lastWrite, last, peer, registry, app>>

\* forEach invokes the next listener, which calls the store's delete for the
\* record it is told of: that call is entered while the notifying one is in
\* progress
InvokeReentrant ==
  /\ stack # <<>>
  /\ Head(stack).pending # <<>>
  /\ reenters(NextDelivery.listener, NextDelivery.action)
  /\ \E quota \in BOOLEAN :
       Enter("delete", delete(NextDelivery.data[1].id, quota), AfterDelivery, Notified)

\* the innermost call has invoked every listener and returns (or it raised)
Return ==
  /\ stack # <<>>
  /\ Head(stack).pending = <<>>
  /\ stack' = Tail(stack)
  /\ log' = Append(log, Event("return", Head(stack).call, Head(stack).op, "none", <<>>, "none",
                              FALSE, Head(stack).wrote, Head(stack).ret))
  /\ last' = [op |-> Head(stack).op, merge |-> "none", given |-> 0, time |-> now,
              before |-> Head(stack).before, ret |-> Head(stack).ret,
              error |-> Head(stack).error, flag |-> Head(stack).flag,
              wrote |-> Head(stack).wrote]
  /\ UNCHANGED <<data, storage, options, listeners, now, calls, lastWrite, peer, registry, app>>

\* the caller runs the function subscribe returned for one of the listeners,
\* between two calls
Deregister ==
  /\ stack = <<>>
  /\ Cardinality({i \in 1..Len(log) : log[i].kind = "unsubscribe"}) < MaxUnsubs
  /\ \E l \in Callbacks :
       /\ listeners' = unsubscribe(listeners, l)
       /\ log' = Append(log, Event("unsubscribe", 0, "none", l, <<>>, "none", FALSE, "none", "none"))
  /\ UNCHANGED <<data, storage, options, now, calls, lastWrite, last, peer, stack, registry, app>>

NextNotify ==
  \/ CallCreate
  \/ CallUpdate
  \/ CallDelete
  \/ CallBulkUpdate
  \/ CallClear
  \/ CallImport
  \/ Invoke
  \/ InvokeReentrant
  \/ Return
  \/ Deregister

SpecNotify == InitNotify /\ [][NextNotify]_vars

(* --------------------- claims about notification ----------------------- *)

\* the positions of log of a given kind
Entries(kind) == {i \in 1..Len(log) : log[i].kind = kind}

\* where call n was entered
EnteredAt(n) == CHOOSE b \in Entries("call") : log[b].call = n

\* listener l was subscribed when position b of log was written: none of the
\* de-registrations before b was l's
SubscribedAt(b, l) ==
  \A u \in Entries("unsubscribe") : u < b => log[u].listener # l

\* the deliveries of call n to listener l
DeliveriesOf(n, l) ==
  {i \in Entries("notify") : log[i].call = n /\ log[i].listener = l}

C17_ThrowingListenerStopsNothing ==
  \A r \in Entries("return") :
    LET n == log[r].call
        b == EnteredAt(n) IN
    (\E i \in Entries("notify") : log[i].call = n /\ log[i].threw) =>
      /\ log[r].ret = "returned"
      /\ log[r].wrote = "ok"
      /\ \A l \in Callbacks :
           SubscribedAt(b, l) => \E i \in DeliveriesOf(n, l) : i < r

\* a call that returned after its first listener threw and a later one was
\* invoked all the same
C17_Witness ==
  \E r \in Entries("return"), i, j \in Entries("notify") :
    /\ log[i].call = log[r].call
    /\ log[j].call = log[r].call
    /\ log[i].threw
    /\ ~log[j].threw
    /\ i < j
    /\ j < r
    /\ \A k \in DeliveriesOf(log[r].call, log[j].listener) : k >= i
    /\ log[r].ret = "returned"

\* C18: once a listener's de-registration has run, no later notification
\* invokes it while every other subscribed listener is still invoked, and
\* running the de-registration again changes nothing.
C18_DeregisteredListenerIsSilent ==
  /\ \A u \in Entries("unsubscribe"), i \in Entries("notify") :
       u < i => log[i].listener # log[u].listener
  /\ \A r \in Entries("return") :
       (log[r].op \in MutatingOps /\ log[r].wrote = "ok") =>
         \A l \in Callbacks :
           SubscribedAt(EnteredAt(log[r].call), l) => DeliveriesOf(log[r].call, l) # {}
  /\ \A l \in Callbacks :
       /\ unsubscribe(unsubscribe(listeners, l), l) = unsubscribe(listeners, l)
       /\ (\E u \in Entries("unsubscribe") : log[u].listener = l) =>
            unsubscribe(listeners, l) = listeners

\* a listener invoked by a first call, de-registered twice, and left out by a
\* second call that invoked the two others
C18_Witness ==
  \E u, v \in Entries("unsubscribe"), r \in Entries("return") :
    /\ u < v
    /\ v < EnteredAt(log[r].call)
    /\ log[u].listener = log[v].listener
    /\ \E i \in Entries("notify") : i < u /\ log[i].listener = log[u].listener
    /\ DeliveriesOf(log[r].call, log[u].listener) = {}
    /\ \A l \in Callbacks \ {log[u].listener} : DeliveriesOf(log[r].call, l) # {}

\* C19: every operation of a store runs to completion before another one of
\* the same store starts, also while listeners are being notified and call
\* store operations themselves, so that every listener is told of the
\* mutations in the order in which they were applied.
C19_OneOperationAtATime ==
  /\ Len(stack) <= 1
  /\ \A i, j \in Entries("notify") :
       (i < j /\ log[i].listener = log[j].listener) => log[i].call <= log[j].call

\* C20: in every mutating operation the write precedes the notification: when
\* a listener is invoked the write has succeeded and the persisted entry
\* equals the in-memory sequence, the mutation included; a call whose write
\* failed notifies nobody.
C20_WriteBeforeNotify ==
  \A i \in Entries("notify") :
    /\ log[i].wrote = "ok"
    /\ log[i].synced

\* the part of C20 that holds: no listener is invoked for a call before that
\* call's write has succeeded
C20_NotifiedOnlyAfterOwnWrite ==
  \A i \in Entries("notify") : log[i].wrote = "ok"

(* ------------------------- a later session ----------------------------- *)

\* The page is loaded again: a new store is constructed on the same name with
\* the same options and reads the entry the previous one left; it has no
\* listeners.  last.before keeps what the previous store held.
Reload ==
  /\ calls > 0
  /\ data' = _loadData(storage, options)
  /\ listeners' = <<>>
  /\ last' = [op |-> "constructor", merge |-> "none", given |-> 0, time |-> now, before |-> data,
              ret |-> "returned", error |-> "none", flag |-> "none", wrote |-> "none"]
  /\ UNCHANGED <<storage, options, now, calls, lastWrite, peer, delivery, registry, app>>

NextSession ==
  \/ Next
  \/ Reload

SpecSession == Init /\ [][NextSession]_vars

C21_WitnessPlain ==
  /\ last.op = "constructor"
  /\ lastWrite = "ok"
  /\ ~options.compression
  /\ storage.kind = "array"
  /\ Len(last.before) = 2
  /\ data = last.before

(* ----------------------- construction over any entry ------------------- *)

\* the JSON text "null"
NullEntry == [kind |-> "null", data |-> <<>>]

\* what the entry of the store's name may hold before the store is
\* constructed: nothing, what a store wrote, or anything else
PersistedEntries ==
  {NoEntry, Unparseable, NotAnArray, NullEntry, WrappedGarbage, WrappedObject}
    \cup {ArrayEntry(l) : l \in ItemLists}
    \cup {CompressedEntry(l) : l \in ItemLists}

\* no store constructed yet
InitConstruct ==
  /\ options \in OptionSets
  /\ storage \in PersistedEntries
  /\ data = <<>>
  /\ listeners = <<>>
  /\ now = 0
  /\ calls = 0
  /\ lastWrite = "none"
  /\ last = [op |-> "none", merge |-> "none", given |-> 0, time |-> 0, before |-> <<>>,
             ret |-> "returned", error |-> "none", flag |-> "none", wrote |-> "none"]
  /\ source = <<>>
  /\ exported = NoSnapshot
  /\ stack = <<>>
  /\ log = <<>>
  /\ registry = NoRegistry
  /\ app = NoApp

\* new BaseStorage(storageKey, options): this.data = this._loadData(), which
\* catches whatever getItem and JSON.parse throw
Construct ==
  /\ last.op = "none"
  /\ data' = _loadData(storage, options)
  /\ last' = [last EXCEPT !.op = "constructor"]
  /\ UNCHANGED <<storage, options, listeners, now, calls, lastWrite, peer, delivery, registry, app>>

NextConstruct ==
  \/ Construct
  \/ Tick

SpecConstruct == InitConstruct /\ [][NextConstruct]_vars

\* the entry holds a record sequence in the encoding this store reads
HoldsRecordSequence ==
  \/ storage.kind = "array"
  \/ storage.kind = "compressed" /\ options.compression

\* C22: constructing a store never fails because of the persisted state: when
\* the entry of its name is absent, not parseable or holds no record
\* sequence, the store starts with an empty record sequence.
C22_CorruptEntryGivesEmptyStore ==
  (last.op = "constructor" /\ ~HoldsRecordSequence) =>
    (last.ret = "returned" /\ data = <<>>)

\* the part of C22 that holds: construction never raises, and the store is
\* empty unless the entry is a compression wrapper around JSON that is no array
C22_EmptyUnlessWrappedNonArray ==
  (last.op = "constructor" /\ ~HoldsRecordSequence) =>
    /\ last.ret = "returned"
    /\ (storage.kind = "wrappedObject" /\ options.compression) \/ data = <<>>

(* ------------------------- the store registry -------------------------- *)

\* The StorageManager with two stores: the 'clients' store and another
\* BaseStorage of the same options named 'archive'.  data, storage and
\* listeners are those of the store named registry.focus, the one the next
\* call is made on; registry.parked holds those of the other store.
\* registry.registered lists the registered names in Map order and
\* registry.job is the importAll or clearAll made, with the stores as they
\* were when it began (start); the run ends with it.

StoreNames == {"clients", "archive"}

\* the other store's name
OtherName == IF registry.focus = "clients" THEN "archive" ELSE "clients"

\* the in-memory sequence and the entry of the store of that name
StoreState(name) ==
  IF name = registry.focus THEN [data |-> data, storage |-> storage]
  ELSE [data |-> registry.parked.data, storage |-> registry.parked.storage]

Stores == [name \in StoreNames |-> StoreState(name)]

\* this.get(name) giving a store for every name a store was constructed with
IsRegistered_anyStore(name) == name \in StoreNames

\* whether a name is a key of this.storages
IsRegistered(name) == \E i \in 1..Len(registry.registered) : registry.registered[i] = name

\* the closures register subscribes to a store, a new one at every call
Forwarders == <<"F1", "F2">>

\* the global listeners
GlobalIds == {"G1", "G2"}

\* what a store may hold when the registry is set up
RegistryEntries == {NoEntry, ArrayEntry(<<Stored("c1", "a@x.io")>>)}

\* per-store snapshots found in an importAll argument: a well-formed one
\* and one whose data is no array
GoodSnapshot == [shape |-> "ok", data |-> <<Stored("c2", Absent)>>]

BadSnapshot == [shape |-> "noArray", data |-> <<>>]

Entry(name, snapshot) == [name |-> name, snapshot |-> snapshot]

\* importAll arguments: null, an object without storages, and objects whose
\* storages maps some of the names 'clients', 'archive' and 'quotes' (no
\* store of that name) to per-store snapshots, in Object.entries order
ImportAllInputs ==
  {[shape |-> "null", storages |-> <<>>], [shape |-> "noStorages", storages |-> <<>>]}
    \cup {[shape |-> "ok", storages |-> e] : e \in
            {<<>>,
             <<Entry("clients", GoodSnapshot)>>,
             <<Entry("archive", GoodSnapshot)>>,
             <<Entry("quotes", GoodSnapshot)>>,
             <<Entry("clients", GoodSnapshot), Entry("archive", GoodSnapshot)>>,
             <<Entry("quotes", GoodSnapshot), Entry("clients", GoodSnapshot)>>,
             <<Entry("archive", BadSnapshot), Entry("clients", GoodSnapshot)>>,
             <<Entry("clients", BadSnapshot), Entry("archive", GoodSnapshot)>>}}

NoJob == NoRegistry.job

\* _notifyGlobalListeners calling the global listener subscribed first only
_notifyGlobalListeners_firstOnly(notified) ==
  LET toForwarders == SelectSeq(notified, LAMBDA d : d.listener \in {Forwarders[1], Forwarders[2]})
      globals == registry.globalListeners IN
  IF globals = <<>> THEN <<>>
  ELSE [k \in 1..Len(toForwarders) |->
          [kind |-> "global", listener |-> globals[1], action |-> toForwarders[k].action,
           data |-> toForwarders[k].data, storageKey |-> toForwarders[k].storageKey]]

\* _notifyGlobalListeners(action, data, storageKey) for each delivery made to
\* a forwarder: one call of every global listener, each in its own try/catch
_notifyGlobalListeners(notified) ==
  LET toForwarders == SelectSeq(notified, LAMBDA d : d.listener \in {Forwarders[1], Forwarders[2]})
      globals == registry.globalListeners
      nG == Len(globals) IN
  [k \in 1..(Len(toForwarders) * nG) |->
     LET d == toForwarders[((k - 1) \div nG) + 1]
         g == globals[((k - 1) % nG) + 1] IN
     [kind |-> "global", listener |-> g, action |-> d.action, data |-> d.data,
      storageKey |-> d.storageKey]]

\* two stores constructed, none registered yet
InitRegistry ==
  /\ options = [validation |-> TRUE, compression |-> FALSE, autoSave |-> TRUE]
  /\ storage \in RegistryEntries
  /\ data = _loadData(storage, options)
  /\ listeners = <<>>
  /\ now = 0
  /\ calls = 0
  /\ lastWrite = "none"
  /\ last = [op |-> "constructor", merge |-> "none", given |-> 0, time |-> 0, before |-> <<>>,
             ret |-> "returned", error |-> "none", flag |-> "none", wrote |-> "none"]
  /\ source = <<>>
  /\ exported = NoSnapshot
  /\ stack = <<>>
  /\ log = <<>>
  /\ \E entry \in RegistryEntries :
       registry = [NoRegistry EXCEPT !.parked = [data |-> _loadData(entry, options),
                                                  storage |-> entry, listeners |-> <<>>]]
  /\ app = NoApp

\* A call of method op on the store in focus, and what the global listeners
\* get of it; log keeps the call and the global deliveries of the calls made
\* since the registrations and subscriptions last changed.
RegistryApply(op, out, job) ==
  /\ calls < MaxCalls
  /\ Len(out.data) <= MaxLen
  /\ calls' = calls + 1
  /\ data' = out.data
  /\ storage' = out.storage
  /\ lastWrite' = IF out.wrote = "none" THEN lastWrite ELSE out.wrote
  /\ last' = [op |-> op, merge |-> "none", given |-> 0, time |-> now, before |-> data,
              ret |-> out.ret, error |-> out.error, flag |-> out.flag, wrote |-> out.wrote]
  /\ log' = log \o <<[kind |-> "call", listener |-> "none", action |-> op,
                      data |-> Affected(op, data, out), storageKey |-> storageKey,
                      notified |-> (out.wrote = "ok")]>>
                \o _notifyGlobalListeners(out.notified)
  /\ registry' = [registry EXCEPT !.job = job]
  /\ UNCHANGED <<options, listeners, now, peer, stack, app>>

\* register(name, storage) of the store in focus under its own name
Register ==
  /\ registry.job.kind = "none"
  /\ \A i \in 1..Len(listeners) : listeners[i] # Forwarders[2]
  /\ listeners' = Append(listeners,
                         IF \E i \in 1..Len(listeners) : listeners[i] = Forwarders[1]
                         THEN Forwarders[2] ELSE Forwarders[1])
  /\ registry' = [registry EXCEPT !.registered = subscribe(@, registry.focus)]
  /\ log' = <<>>
  /\ UNCHANGED <<data, storage, options, now, calls, lastWrite, last, peer, stack, app>>

\* StorageManager.subscribe(listener)
SubscribeGlobal ==
  /\ registry.job.kind = "none"
  /\ \E g \in GlobalIds :
       registry' = [registry EXCEPT !.globalListeners = subscribe(@, g)]
  /\ log' = <<>>
  /\ UNCHANGED <<data, storage, options, listeners, now, calls, lastWrite, last, peer, stack, app>>

\* the next call is made on the other store (this.get(name), or the next
\* store of this.storages.forEach)
Switch ==
  /\ \/ registry.job.kind = "none"
     \/ /\ registry.job.todo # <<>>
        /\ Head(registry.job.todo).name = OtherName
        /\ IsRegistered(OtherName)
  /\ data' = registry.parked.data
  /\ storage' = registry.parked.storage
  /\ listeners' = registry.parked.listeners
  /\ registry' = [registry EXCEPT !.focus = OtherName,
                                  !.parked = [data |-> data, storage |-> storage,
                                              listeners |-> listeners]]
  /\ UNCHANGED <<options, now, calls, lastWrite, last, peer, delivery, app>>

\* a caller creates a record in, or clears, the store in focus (one such call
\* is followed)
StoreCreate ==
  /\ registry.job.kind = "none"
  /\ calls = 0
  /\ \E itemData \in NotifyCreates, gid \in GenIds, quota \in BOOLEAN :
       RegistryApply("create", create(itemData, gid, quota), registry.job)

StoreClear ==
  /\ registry.job.kind = "none"
  /\ calls = 0
  /\ \E quota \in BOOLEAN : RegistryApply("clear", clear(quota), registry.job)

\* importAll(importData, merge) up to its forEach: throws when importData is
\* null or has no storages
ImportAllBegin ==
  /\ registry.job.kind = "none"
  /\ \E importData \in ImportAllInputs, merge \in BOOLEAN :
       registry' = [registry EXCEPT !.job =
         [kind |-> "importAll", shape |-> importData.shape,
          status |-> IF importData.shape # "ok" THEN "raised"
                     ELSE IF importData.storages = <<>> THEN "returned" ELSE "running",
          todo |-> importData.storages,
          names |-> {importData.storages[i].name : i \in 1..Len(importData.storages)},
          merge |-> merge, failing |-> {}, start |-> Stores]]
  /\ UNCHANGED <<data, storage, options, listeners, now, calls, lastWrite, last, peer, delivery, app>>

\* what is left of the job after the entry or store at the head of todo:
\* nothing when the call on it raised, as nothing catches the error
Continue(ret) ==
  [registry.job EXCEPT !.todo = IF ret = "raised" THEN <<>> ELSE Tail(@),
                       !.status = IF ret = "raised" THEN "raised"
                                  ELSE IF Tail(registry.job.todo) = <<>> THEN "returned"
                                  ELSE "running"]

\* importAll's forEach body for an entry naming no registered store
ImportAllSkip ==
  /\ registry.job.kind = "importAll"
  /\ registry.job.status = "running"
  /\ ~IsRegistered(Head(registry.job.todo).name)
  /\ registry' = [registry EXCEPT !.job = Continue("returned")]
  /\ UNCHANGED <<data, storage, options, listeners, now, calls, lastWrite, last, peer, delivery, app>>

\* importAll's forEach body for an entry naming the store in focus
ImportAllStep ==
  /\ registry.job.kind = "importAll"
  /\ registry.job.status = "running"
  /\ Head(registry.job.todo).name = registry.focus
  /\ IsRegistered(registry.focus)
  /\ \E quota \in BOOLEAN :
       LET out == import(Head(registry.job.todo).snapshot, registry.job.merge, quota) IN
       RegistryApply("import", out, Continue(out.ret))

\* clearAll() up to its forEach; failing names the stores whose write would
\* fail while it runs
ClearAllBegin ==
  /\ registry.job.kind = "none"
  /\ \E failing \in SUBSET StoreNames :
       registry' = [registry EXCEPT !.job =
         [kind |-> "clearAll", shape |-> "none",
          status |-> IF registry.registered = <<>> THEN "returned" ELSE "running",
          todo |-> [i \in 1..Len(registry.registered) |-> [name |-> registry.registered[i]]],
          names |-> {}, merge |-> FALSE, failing |-> failing, start |-> Stores]]
  /\ UNCHANGED <<data, storage, options, listeners, now, calls, lastWrite, last, peer, delivery, app>>

\* clearAll's forEach body for the store in focus
ClearAllStep ==
  /\ registry.job.kind = "clearAll"
  /\ registry.job.status = "running"
  /\ Head(registry.job.todo).name = registry.focus
  /\ LET out == clear(registry.focus \in registry.job.failing) IN
     RegistryApply("clear", out, Continue(out.ret))

NextRegistry ==
  \/ Register
  \/ SubscribeGlobal
  \/ Switch
  \/ StoreCreate
  \/ StoreClear
  \/ ImportAllBegin
  \/ ImportAllSkip
  \/ ImportAllStep
  \/ ClearAllBegin
  \/ ClearAllStep

SpecRegistry == InitRegistry /\ [][NextRegistry]_vars

(* ----------------------- claims about the registry --------------------- *)

\* the positions of log holding a call that notified the store's listeners
NotifyingCalls == {c \in 1..Len(log) : log[c].kind = "call" /\ log[c].notified}

\* the global deliveries that follow the call at position c, up to the next call
GlobalDeliveries(c) ==
  {i \in (c + 1)..Len(log) :
     /\ log[i].kind = "global"
     /\ \A k \in (c + 1)..i : log[k].kind = "global"}

\* those that hand listener g what the call at c handed the store's listeners
SameTo(c, g) ==
  {i \in GlobalDeliveries(c) :
     /\ log[i].listener = g
     /\ log[i].action = log[c].action
     /\ log[i].data = log[c].data
     /\ log[i].storageKey = log[c].storageKey}

GlobalListenerSet ==
  {registry.globalListeners[i] : i \in 1..Len(registry.globalListeners)}

\* the listeners of the store of that name
ListenersOf(name) == IF name = registry.focus THEN listeners ELSE registry.parked.listeners

\* how often the store of that name was handed to register
Registrations(name) ==
  Cardinality({i \in 1..Len(ListenersOf(name)) :
                 ListenersOf(name)[i] \in {Forwarders[1], Forwarders[2]}})

\* C23: for a store registered in the registry, each notification the store
\* emits is re-emitted to every global listener subscribed at that time
\* exactly once, with the same action kind and data and the name under which
\* the store is registered.
C23_ReemittedExactlyOnce ==
  \A c \in NotifyingCalls :
    IsRegistered(log[c].storageKey) =>
      /\ \A g \in GlobalListenerSet : Cardinality(SameTo(c, g)) = 1
      /\ \A i \in GlobalDeliveries(c) : \E g \in GlobalListenerSet : i \in SameTo(c, g)

\* C23 amended: each notification of a registered store is re-emitted to every
\* global listener subscribed at that time once for every time the store was
\* handed to register (exactly once when it was registered once), with the
\* same action kind and data and the store's own name.
C23_ReemittedOncePerRegistration ==
  \A c \in NotifyingCalls :
    /\ \A g \in GlobalListenerSet :
         Cardinality(SameTo(c, g)) = Registrations(log[c].storageKey)
    /\ \A i \in GlobalDeliveries(c) : \E g \in GlobalListenerSet : i \in SameTo(c, g)
    /\ IsRegistered(log[c].storageKey) <=> Registrations(log[c].storageKey) > 0

\* a create on a store registered once, re-emitted once to each of two
\* global listeners
C23_Witness ==
  \E c \in NotifyingCalls :
    /\ log[c].action = "create"
    /\ Registrations(log[c].storageKey) = 1
    /\ Cardinality(GlobalListenerSet) = 2
    /\ Cardinality(GlobalDeliveries(c)) = 2

\* a create on a store registered twice, re-emitted twice to a global listener
C23_WitnessTwice ==
  \E c \in NotifyingCalls, g \in GlobalListenerSet :
    /\ Registrations(log[c].storageKey) = 2
    /\ Cardinality(SameTo(c, g)) = 2

\* the names register was called with
RegisteredNames == {registry.registered[i] : i \in 1..Len(registry.registered)}

C24_WitnessInvalid ==
  /\ registry.job.kind = "importAll"
  /\ registry.job.shape = "null"
  /\ registry.job.status = "raised"
  /\ RegisteredNames = StoreNames
  /\ \A name \in StoreNames : Stores[name].data # <<>>

\* an importAll that returned having met an entry for the store 'archive',
\* which exists but is not registered, and left it alone
C24_WitnessIgnored ==
  /\ registry.job.kind = "importAll"
  /\ registry.job.status = "returned"
  /\ "archive" \in registry.job.names
  /\ "archive" \notin RegisteredNames
  /\ "clients" \in RegisteredNames

\* C25: clearAll() attempts to clear every registered store: once it is over,
\* every registered store whose own write does not fail is empty, in memory
\* and in its entry, also when the clear of another store failed.
C25_ClearAllAttemptsEveryStore ==
  (registry.job.kind = "clearAll" /\ registry.job.status # "running") =>
    \A name \in RegisteredNames \ registry.job.failing :
      Stores[name].data = <<>> /\ Stores[name].storage.data = <<>>

\* the part of C25 that holds: a clearAll that returned has emptied every
\* registered store, and a clearAll that raised has left every store after
\* the failing one as it was
C25_ClearAllStopsAtFirstFailure ==
  (registry.job.kind = "clearAll" /\ registry.job.status # "running") =>
    /\ registry.job.status = "returned" =>
         \A name \in RegisteredNames : Stores[name].data = <<>>
    /\ registry.job.status = "raised" =>
         \E i \in 1..Len(registry.registered) :
           /\ registry.registered[i] \in registry.job.failing
           /\ \A j \in (i + 1)..Len(registry.registered) :
                Stores[registry.registered[j]] = registry.job.start[registry.registered[j]]

(* ---------------------- client and project services -------------------- *)

\* The page with the client and the project module loaded.  Four stores
\* exist: the module-level clientStorage and projectStorage, registered as
\* 'clients' and 'projects', and the ClientStorage and ProjectStorage that
\* ClientManagement and ProjectManagement construct when they mount.  Stores
\* of one class share one entry.  data, storage and listeners are those of
\* the store app.focus, the one the next service call is made on;
\* app.memory and app.entry hold the others'.  app.alive is the set of client
\* ids whose create returned and whose delete has not returned true since;
\* app.on and app.id are the store and the id argument of the last call.

\* most service calls made after the page has loaded
MaxServiceCalls == 3

ProjectFields ==
  {"id", "createdAt", "updatedAt", "clientId", "projectTitle", "projectDescription",
   "projectType", "projectNumber", "status"}

\* a project object of the caller's
Project(id, clientId, status) ==
  [id |-> id, createdAt |-> Absent, updatedAt |-> Absent, clientId |-> clientId,
   projectTitle |-> "Site", projectDescription |-> "Redesign", projectType |-> "web",
   projectNumber |-> Absent, status |-> status]

EmptyProject == [f \in ProjectFields |-> Absent]

\* the ids _generateId returns, one after the other
GeneratedIds == <<"n1", "n2", "n3", "n4">>

\* `${year}${month}${day}` of today, and the numbers generateProjectNumber
\* builds from it with a two-digit sequence
datePrefix == "261103"

ProjectNumbers == <<"261103_01", "261103_02", "261103_03", "261103_04", "261103_05">>

\* projectNumber.startsWith(datePrefix), among the numbers of the model
startsWith(projectNumber, prefix) ==
  prefix = datePrefix /\ \E i \in 1..Len(ProjectNumbers) : ProjectNumbers[i] = projectNumber

\* generateProjectNumber(): the prefix and the count of stored projects whose
\* number starts with it, plus one
generateProjectNumber(d) ==
  LET existingProjects ==
        SelectSeq(d, LAMBDA project :
                       ~Falsy(project.projectNumber)
                         /\ startsWith(project.projectNumber, datePrefix)) IN
  ProjectNumbers[Len(existingProjects) + 1]

\* a client and a project as an earlier session today stored them
StoredClient == Stored("c1", "a@x.io")

StoredProject ==
  [Project("p1", "c1", "received") EXCEPT !.createdAt = "tc", !.updatedAt = "tc",
                                          !.projectNumber = ProjectNumbers[1]]

\* String.prototype.toLowerCase on the emails of the model
toLowerCase(v) == IF v = "A@x.io" THEN "a@x.io" ELSE v

\* the in-memory sequence of a store
Memory(instance) == IF instance = app.focus THEN data ELSE app.memory[instance]

\* the entry of a storage key
EntryOf(key) == IF key = KeyOf(app.focus) THEN storage ELSE app.entry[key]

\* window.OCM_STORAGE_MANAGER.get(name).getAll() for the two registered names
Registered(name) == Memory(IF name = "clients" THEN "clientStorage" ELSE "projectStorage")

\* getByEmail(email): the clients whose lower-cased email equals the
\* lower-cased argument (the caller takes the first); getWhere catches the
\* TypeError of toLowerCase on an undefined email and returns []
getByEmail(d, email) ==
  IF (\E i \in 1..Len(d) : d[i].email = Absent) \/ (d # <<>> /\ email = Absent) THEN <<>>
  ELSE SelectSeq(d, LAMBDA client : toLowerCase(client.email) = toLowerCase(email))

\* _hasRelatedProjects(clientId): the registered 'projects' store holds a
\* project of that client whose status is neither completed nor cancelled
_hasRelatedProjects(clientId) ==
  /\ IsRegistered("projects")
  /\ \E i \in 1..Len(Registered("projects")) :
       /\ Registered("projects")[i].clientId = clientId
       /\ Registered("projects")[i].status \notin {"completed", "cancelled"}

\* createClient(clientData): the duplicate-email test, then storage.create
\* (the defaults it adds, clientType, status, totals and lastContactDate, are
\* no fields of the model)
createClient(clientData, gid, quota) ==
  IF getByEmail(data, clientData.email) # <<>> THEN Raise("DuplicateEmailError")
  ELSE create(clientData, gid, quota)

\* updateClient(id, updates): storage.update with lastModifiedDate added
updateClient(id, updates, quota) == update(id, updates, quota)

\* deleteClient(id): the related-projects test, then storage.delete
deleteClient(id, quota) ==
  IF _hasRelatedProjects(id) THEN Raise("ActiveProjectsError") ELSE delete(id, quota)

\* createProject(projectData): the client-exists test against the registered
\* 'clients' store, the number, the default status, then storage.create
createProject(projectData, gid, quota) ==
  IF IsRegistered("clients") /\ ~exists(Registered("clients"), projectData.clientId)
  THEN Raise("NoSuchClientError")
  ELSE create([projectData EXCEPT
                 !.projectNumber = generateProjectNumber(data),
                 !.status = IF Falsy(projectData.status) THEN "received" ELSE projectData.status],
              gid, quota)

\* updateProject(id, updates): _handleStatusChange adds date fields that are
\* no fields of the model, then storage.update
updateProject(id, updates, quota) ==
  IF ~exists(data, id) THEN Raise("NotFoundError") ELSE update(id, updates, quota)

\* deleteProject(id): no 'quotes', 'contracts' or 'transactions' store is
\* registered, so _hasRelatedDocuments is false; then storage.delete
deleteProject(id, quota) == delete(id, quota)

\* the page once base-storage, the client module and the project module have
\* run: both module-level stores loaded from their entries and registered
InitApp ==
  /\ options = [validation |-> TRUE, compression |-> FALSE, autoSave |-> TRUE]
  /\ storage = ArrayEntry(<<StoredClient>>)
  /\ data = _loadData(storage, options)
  /\ listeners = <<Forwarders[1]>>
  /\ now = 0
  /\ calls = 0
  /\ lastWrite = "none"
  /\ last = [op |-> "constructor", merge |-> "none", given |-> 0, time |-> 0, before |-> <<>>,
             ret |-> "returned", error |-> "none", flag |-> "none", wrote |-> "none"]
  /\ source = <<>>
  /\ exported = NoSnapshot
  /\ stack = <<>>
  /\ log = <<>>
  /\ registry = [NoRegistry EXCEPT !.registered = <<"clients", "projects">>]
  /\ \E entry \in {ArrayEntry(<<>>), ArrayEntry(<<StoredProject>>)} :
       app = [NoApp EXCEPT !.memory["clientStorage"] = data,
                           !.memory["projectStorage"] = _loadData(entry, options),
                           !.entry["clients"] = storage,
                           !.entry["projects"] = entry,
                           !.mounted = {"clientStorage", "projectStorage"},
                           !.alive = {"c1"}]

\* a service call on the store in focus and what it leaves behind
ServiceApply(op, id, out) ==
  /\ ~app.unloaded
  /\ calls < MaxServiceCalls
  /\ Len(out.data) <= MaxLen
  /\ calls' = calls + 1
  /\ data' = out.data
  /\ storage' = out.storage
  /\ lastWrite' = IF out.wrote = "none" THEN lastWrite ELSE out.wrote
  /\ last' = [op |-> op, merge |-> "none", given |-> 0, time |-> now, before |-> data,
              ret |-> out.ret, error |-> out.error, flag |-> out.flag, wrote |-> out.wrote]
  /\ app' = [app EXCEPT
       !.on = app.focus,
       !.id = id,
       !.made = IF Len(out.data) > Len(data) THEN @ + 1 ELSE @,
       !.alive = IF op = "createClient" /\ out.ret = "returned" THEN @ \cup {out.value[1].id}
                 ELSE IF op = "deleteClient" /\ out.flag = "true" THEN @ \ {id}
                 ELSE @]
  /\ UNCHANGED <<options, listeners, now, peer, delivery, registry>>

\* ids handed to the services
ServiceIds == {"c1", "p1", "n1", "n2"}

\* the next service call is made through the service of another store
Focus ==
  /\ ~app.unloaded
  /\ \E target \in app.mounted \ {app.focus} :
       /\ data' = app.memory[target]
       /\ storage' = EntryOf(KeyOf(target))
       /\ listeners' = IF target \in {"clientStorage", "projectStorage"}
                       THEN <<Forwarders[1]>> ELSE <<>>
       /\ registry' = [registry EXCEPT !.focus = KeyOf(target)]
       /\ app' = [app EXCEPT !.focus = target,
                             !.memory[app.focus] = data,
                             !.entry[KeyOf(app.focus)] = storage]
  /\ UNCHANGED <<options, now, calls, lastWrite, last, peer, delivery>>

\* ClientManagement or ProjectManagement mounts: useMemo constructs a store
\* of its own, which loads what the entry holds at that time
Mount ==
  /\ ~app.unloaded
  /\ \E component \in {"ClientManagement", "ProjectManagement"} \ app.mounted :
       app' = [app EXCEPT !.mounted = @ \cup {component},
                          !.memory[component] = _loadData(EntryOf(KeyOf(component)), options)]
  /\ UNCHANGED <<data, storage, options, listeners, now, calls, lastWrite, last, peer,
                 delivery, registry>>

CreateClient ==
  /\ KeyOf(app.focus) = "clients"
  /\ \E email \in {"A@x.io", "b@x.io"} :
       ServiceApply("createClient", "none",
                    createClient(Client(Absent, Absent, email), GeneratedIds[app.made + 1], FALSE))

UpdateClient ==
  /\ KeyOf(app.focus) = "clients"
  /\ \E id \in ServiceIds :
       ServiceApply("updateClient", id, updateClient(id, Partial(Absent, Absent, "A@x.io"), FALSE))

DeleteClient ==
  /\ KeyOf(app.focus) = "clients"
  /\ \E id \in ServiceIds : ServiceApply("deleteClient", id, deleteClient(id, FALSE))

CreateProject ==
  /\ KeyOf(app.focus) = "projects"
  /\ \E clientId \in {"c1", "c9"}, status \in {Absent, "completed"} :
       ServiceApply("createProject", "none",
                    createProject(Project(Absent, clientId, status),
                                  GeneratedIds[app.made + 1], FALSE))

UpdateProject ==
  /\ KeyOf(app.focus) = "projects"
  /\ \E id \in ServiceIds,
        updates \in {[EmptyProject EXCEPT !.clientId = "c9"],
                     [EmptyProject EXCEPT !.status = "completed"]} :
       ServiceApply("updateProject", id, updateProject(id, updates, FALSE))

DeleteProject ==
  /\ KeyOf(app.focus) = "projects"
  /\ \E id \in ServiceIds : ServiceApply("deleteProject", id, deleteProject(id, FALSE))

\* the store constructed last under a key: the component's when it mounted
LastConstructed(key) ==
  IF key = "clients"
  THEN (IF "ClientManagement" \in app.mounted THEN "ClientManagement" ELSE "clientStorage")
  ELSE (IF "ProjectManagement" \in app.mounted THEN "ProjectManagement" ELSE "projectStorage")

\* the page unloads: the beforeunload handler of every store runs _save() in
\* the order the stores were constructed, so each entry ends as the
\* serialization of the store constructed last under its key
Unload ==
  /\ ~app.unloaded
  /\ calls > 0
  /\ storage' = Serialized(Memory(LastConstructed(KeyOf(app.focus))))
  /\ app' = [app EXCEPT
       !.unloaded = TRUE,
       !.entry = [k \in {"clients", "projects"} |-> Serialized(Memory(LastConstructed(k)))]]
  /\ last' = [last EXCEPT !.op = "beforeunload"]
  /\ UNCHANGED <<data, options, listeners, now, calls, lastWrite, peer, delivery, registry>>

NextApp ==
  \/ Focus
  \/ Mount
  \/ CreateClient
  \/ UpdateClient
  \/ DeleteClient
  \/ CreateProject
  \/ UpdateProject
  \/ DeleteProject
  \/ Unload

SpecApp == InitApp /\ [][NextApp]_vars

(* ------------------------- claims on the services ---------------------- *)

\* a sequence of projects holds one of that client that is neither completed
\* nor cancelled
HoldsActiveProject(d, clientId) ==
  \E i \in 1..Len(d) : d[i].clientId = clientId /\ d[i].status \notin {"completed", "cancelled"}

\* C26: deleteClient(id) never removes a client for which an active project
\* exists, whichever service or UI path created the project: after a
\* deleteClient that returned true, the 'projects' entry, where every path
\* persists its projects, holds no project of that client with a status
\* other than completed or cancelled.
C26_DeleteClientGuardedByAnyActiveProject ==
  (last.op = "deleteClient" /\ last.flag = "true") =>
    ~HoldsActiveProject(EntryOf("projects").data, app.id)

\* the part of C26 that holds: the guard sees the registered 'projects' store
C26_GuardedByRegisteredProjects ==
  (last.op = "deleteClient" /\ last.flag = "true") =>
    ~HoldsActiveProject(Registered("projects"), app.id)

\* C27: with the two stores bound to 'clients', the persisted 'clients' entry
\* contains every client that was successfully created and not deleted
\* afterwards, after any service calls through either store and after the
\* flush at page unload.
C27_EntryHoldsEveryLiveClient ==
  \A id \in app.alive : exists(EntryOf("clients").data, id)

\* the part of C27 that holds: as long as ClientManagement has not mounted,
\* the entry holds every live client
C27_EntryCompleteWithOneStore ==
  "ClientManagement" \notin app.mounted =>
    \A id \in app.alive : exists(EntryOf("clients").data, id)

\* C28: after any sequence of createProject and deleteProject calls on one
\* project store on the same day, no two stored projects have the same
\* projectNumber.
C28_ProjectNumbersAreUnique ==
  \A i, j \in 1..Len(Memory("projectStorage")) :
    i # j => Memory("projectStorage")[i].projectNumber # Memory("projectStorage")[j].projectNumber

\* C29: with a 'clients' store registered, the clientId of every project in
\* the registered 'projects' store is the id of a client present in the
\* registered 'clients' store.
C29_EveryProjectHasItsClient ==
  \A i \in 1..Len(Registered("projects")) :
    exists(Registered("clients"), Registered("projects")[i].clientId)

\* the part of C29 that holds: a project just created names a present client
C29_CreatedProjectHasItsClient ==
  (last.op = "createProject" /\ last.ret = "returned") =>
    exists(Registered("clients"), Memory(app.on)[Len(Memory(app.on))].clientId)

\* C30: after any sequence of createClient, updateClient and deleteClient
\* calls on one client service, no two stored clients have emails that are
\* equal ignoring letter case.
C30_EmailsUniqueIgnoringCase ==
  \A i, j \in 1..Len(Memory("clientStorage")) :
    i # j => toLowerCase(Memory("clientStorage")[i].email)
               # toLowerCase(Memory("clientStorage")[j].email)

\* the part of C30 that holds: createClient never stores a second client under
\* an email already stored, whatever the letter case
C30_CreateClientKeepsEmailsUnique ==
  (last.op = "createClient" /\ last.ret = "returned") =>
    \A i \in 1..(Len(Memory(app.on)) - 1) :
      toLowerCase(Memory(app.on)[i].email) # toLowerCase(Memory(app.on)[Len(Memory(app.on))].email)

====
